---- MODULE Spec2Model ----
(***************************************************************************)
(* A model of the matching-and-ranking engine of convert.py: the URL       *)
(* ranker (getRankedURLSLst), the name tokenizer (arrangeWordsByImportance,*)
(* getCompanyAcronyms), the rule matcher (getBestURL) and the batch        *)
(* resolver (getBestURLForName).                                           *)
(*                                                                         *)
(* A Python str is a sequence of one-character strings.  A float score is  *)
(* an exact rational: raw totals are integers in units of 1/20 (so that    *)
(* 0.25, -0.25 and -0.1 are 5, -5 and -2), a normalized score or a         *)
(* confidence is a record [num, den] with den > 0.                         *)
(***************************************************************************)
EXTENDS Integers, Sequences, FiniteSets, TLC

VARIABLES
    company,          \* getBestURL: the company argument (after line 77: stripped)
    urls,             \* getBestURL / getRankedURLSLst: the urls argument
    pc,               \* position in the running call
    i,                \* getRankedURLSLst: number of urls enumerated so far
    rankedURLSDict,   \* getRankedURLSLst: the dict, in insertion order
    min_rank,         \* getRankedURLSLst: running minimum
    max_rank,         \* getRankedURLSLst: running maximum
    ranked_urls,      \* getBestURL: the ranked (domain, score) list
    nonwords,         \* getBestURL: first list of arrangeWordsByImportance
    others,           \* getBestURL: second list of arrangeWordsByImportance
    company_acronyms, \* getBestURL: getCompanyAcronyms(company)
    simplified_name,  \* getBestURL: line 81
    k,                \* getBestURL: number of ranked domains examined so far
    best_url,         \* getBestURL: the returned value
    query2URLS,       \* getBestURLForName: the dict argument, in iteration order
    n,                \* getBestURLForName: number of items iterated so far
    results,          \* getBestURLForName: the results dict, in insertion order
    not_found         \* getBestURLForName: the not_found list

vars == <<company, urls, pc, i, rankedURLSDict, min_rank, max_rank, ranked_urls,
          nonwords, others, company_acronyms, simplified_name, k, best_url,
          query2URLS, n, results, not_found>>

callVars == <<company, urls, i, rankedURLSDict, min_rank, max_rank, ranked_urls,
              nonwords, others, company_acronyms, simplified_name, k, best_url>>

batchVars == <<query2URLS, n, results, not_found>>

----------------------------------------------------------------------------
(* Bounds of the model. *)

\* Longest candidate URL list handed to getBestURL.
MaxURLs == 3

\* Most words in a name handed to the tokenizer on its own.
MaxWords == 3

\* Most entries of the mapping handed to getBestURLForName.
MaxEntries == 2

----------------------------------------------------------------------------
(* Python str operations, on sequences of characters. *)

UpperChars == <<"A","B","C","D","E","F","G","H","I","J","K","L","M",
                "N","O","P","Q","R","S","T","U","V","W","X","Y","Z">>

LowerChars == <<"a","b","c","d","e","f","g","h","i","j","k","l","m",
                "n","o","p","q","r","s","t","u","v","w","x","y","z">>

Whitespace == {" ", "\t", "\n"}

\* str.lower() on one character.
LowerChar(c) ==
    IF \E j \in 1..Len(UpperChars) : UpperChars[j] = c
    THEN LowerChars[CHOOSE j \in 1..Len(UpperChars) : UpperChars[j] = c]
    ELSE c

\* str.lower()
Lower(s) == [j \in 1..Len(s) |-> LowerChar(s[j])]

\* The characters of s that are not in the set drop, in order
\* (''.join(c for c in s if c not in drop), and s.replace(" ", "")).
RECURSIVE Without(_, _)
Without(s, drop) ==
    IF s = <<>> THEN <<>>
    ELSE IF Head(s) \in drop THEN Without(Tail(s), drop)
    ELSE <<Head(s)>> \o Without(Tail(s), drop)

\* t starts at offset p (0-based) of s.
OccursAt(t, s, p) ==
    /\ p + Len(t) <= Len(s)
    /\ \A j \in 1..Len(t) : s[p + j] = t[j]

\* Python's `t in s` on strings: the empty string is in every string.
In(t, s) == \E p \in 0..Len(s) : OccursAt(t, s, p)

\* s.find(c) + 1 for a single character c: the 1-based index of the first
\* c in s, or 0 when there is none.
FirstIndex(s, cs) ==
    IF \E j \in 1..Len(s) : s[j] \in cs
    THEN CHOOSE j \in 1..Len(s) : s[j] \in cs /\ \A h \in 1..(j-1) : s[h] \notin cs
    ELSE 0

\* s.split(sep) for a one-character sep: every separator splits, empty
\* parts are kept, and "".split(sep) is [""].
RECURSIVE SplitOn(_, _)
SplitOn(s, sep) ==
    LET p == FirstIndex(s, {sep})
    IN  IF p = 0 THEN <<s>>
        ELSE <<SubSeq(s, 1, p - 1)>> \o SplitOn(SubSeq(s, p + 1, Len(s)), sep)

\* s.split(): split on runs of whitespace, no empty words.
RECURSIVE Split(_)
Split(s) ==
    IF s = <<>> THEN <<>>
    ELSE IF Head(s) \in Whitespace THEN Split(Tail(s))
    ELSE LET p == FirstIndex(s, Whitespace)
         IN  IF p = 0 THEN <<s>>
             ELSE <<SubSeq(s, 1, p - 1)>> \o Split(SubSeq(s, p + 1, Len(s)))

\* s.replace(w, '') for a non-empty w: the non-overlapping occurrences of
\* w are removed scanning from the left.
RECURSIVE Replace(_, _)
Replace(s, w) ==
    IF Len(s) < Len(w) THEN s
    ELSE IF OccursAt(w, s, 0) THEN Replace(SubSeq(s, Len(w) + 1, Len(s)), w)
    ELSE <<Head(s)>> \o Replace(Tail(s), w)

\* ''.join(parts)
RECURSIVE Join(_)
Join(parts) == IF parts = <<>> THEN <<>> ELSE Head(parts) \o Join(Tail(parts))

\* sorted(s, key=..., reverse=True), where less holds the pairs <<a, b>> of
\* indices with key(s[a]) < key(s[b]): descending by key and stable, so the
\* element at index j comes after every element with a greater key and after
\* the equal-keyed elements before it.
SortedReverse(s, less) ==
    LET before(j) == {h \in 1..Len(s) :
                        \/ <<j, h>> \in less
                        \/ (<<h, j>> \notin less /\ h < j)}
    IN  [p \in 1..Len(s) |->
            s[CHOOSE j \in 1..Len(s) : Cardinality(before(j)) = p - 1]]

Max(a, b) == IF a >= b THEN a ELSE b
Min(a, b) == IF a <= b THEN a ELSE b

----------------------------------------------------------------------------
(* Rationals [num, den], den > 0. *)

Frac(a, b) == [num |-> a, den |-> b]
FracLess(x, y) == x.num * y.den < y.num * x.den
FracEq(x, y) == x.num * y.den = y.num * x.den
FracLeq(x, y) == x.num * y.den <= y.num * x.den
\* x * (a / b), for b > 0
FracTimes(x, a, b) == Frac(x.num * a, x.den * b)

----------------------------------------------------------------------------
(* Module-level data of convert.py. *)

\* 1.0 in the unit of the raw totals (1/20).
One == 20

URL_COUNT_WEIGHT == 5
URL_ORDER_WEIGHT == -5
URL_LEN_WEIGHT == -2

TRIVIAL_WORDS == {
    <<"c","o","m","p","a","n","y">>,
    <<"i","n","c">>,
    <<"g","r","o","u","p">>,
    <<"c","o","r","p","o","r","a","t","i","o","n">>,
    <<"c","o">>,
    <<"c","o","r","p">>,
    <<"u","n","i","v","e","r","s","i","t","y">>,
    <<"c","o","l","l","e","g","e">>,
    <<"&">>,
    <<"l","l","c">>,
    <<"t","h","e">>,
    <<"o","f">>,
    <<"a">>,
    <<"a","n">>
}

\* enchant.Dict("en_US"): the lowercase words of the model's names that the
\* en_US dictionary holds.  check(word) is membership.
ENGLISH_DICT == {
    <<"a","c","m","e">>,
    <<"p","e","n">>,
    <<"t","h","e">>,
    <<"a">>,
    <<"a","n">>,
    <<"o","f">>,
    <<"c","o","m","p","a","n","y">>,
    <<"g","r","o","u","p">>,
    <<"c","o","l","l","e","g","e">>,
    <<"u","n","i","v","e","r","s","i","t","y">>,
    <<"c","o","r","p","o","r","a","t","i","o","n">>
}

----------------------------------------------------------------------------
(* A dict is the sequence of its items [key, val] in insertion order. *)

DictHas(d, key) == \E j \in 1..Len(d) : d[j].key = key

DictGet(d, key, default) ==
    IF DictHas(d, key)
    THEN d[CHOOSE j \in 1..Len(d) : d[j].key = key].val
    ELSE default

\* d[key] = val: an existing key keeps its position.
DictSet(d, key, val) ==
    IF DictHas(d, key)
    THEN [j \in 1..Len(d) |-> IF d[j].key = key THEN [key |-> key, val |-> val] ELSE d[j]]
    ELSE Append(d, [key |-> key, val |-> val])

----------------------------------------------------------------------------
(* simplifyURL: urlparse(url).netloc.  urlsplit takes a scheme when the    *)
(* text before the first ":" is a letter followed by scheme characters,    *)
(* and then a network location only when what follows starts with "//":    *)
(* it runs to the first "/", "?" or "#".                                   *)

Digits == {"0","1","2","3","4","5","6","7","8","9"}

Letters == {UpperChars[j] : j \in 1..Len(UpperChars)} \cup
           {LowerChars[j] : j \in 1..Len(LowerChars)}

SchemeChars == Letters \cup Digits \cup {"+", "-", "."}

simplifyURL(url) ==
    LET c == FirstIndex(url, {":"})
        hasScheme == /\ c > 1
                     /\ url[1] \in Letters
                     /\ \A j \in 1..(c - 1) : url[j] \in SchemeChars
        rest == IF hasScheme THEN SubSeq(url, c + 1, Len(url)) ELSE url
    IN  IF Len(rest) >= 2 /\ rest[1] = "/" /\ rest[2] = "/"
        THEN LET body == SubSeq(rest, 3, Len(rest))
                 d == FirstIndex(body, {"/", "?", "#"})
             IN  IF d = 0 THEN body ELSE SubSeq(body, 1, d - 1)
        ELSE <<>>

----------------------------------------------------------------------------
(* getRankedURLSLst *)

\* float('inf') / float('-inf') until the first value is folded in.
Unset == [inf |-> TRUE, val |-> 0]
Fin(x) == [inf |-> FALSE, val |-> x]

\* Lines 53-54: the length the ranker charges a domain for.
DomainLength(simpleURL) ==
    LET domain_parts == SplitOn(simpleURL, ".")
    IN  IF Len(domain_parts) = 3 THEN Len(domain_parts[2]) ELSE Len(domain_parts[1])

\* Line 56, for the url at 0-based position i0.
RawRank(i0, simpleURL) ==
    URL_COUNT_WEIGHT + URL_ORDER_WEIGHT * (i0 + 1)
        + URL_LEN_WEIGHT * DomainLength(simpleURL)

\* Accumulate with the url itself as the key (simplifyURL forgotten in the
\* dict accesses).
AccumulateByURL(d, i0, url) ==
    DictSet(d, url, DictGet(d, url, 0) + RawRank(i0, simplifyURL(url)))

\* Line 57: the dict after the url at position i0 is accumulated.
Accumulate(d, i0, url) ==
    LET simpleURL == simplifyURL(url)
    IN  DictSet(d, simpleURL, DictGet(d, simpleURL, 0) + RawRank(i0, simpleURL))

\* Line 59: min(min_rank, t), for t the total just stored.
NextMin(m, t) == IF m.inf THEN Fin(t) ELSE Fin(Min(m.val, t))

\* Line 60: max(max_rank, t).
NextMax(m, t) == IF m.inf THEN Fin(t) ELSE Fin(Max(m.val, t))

\* Line 62: max(max_rank - min_rank, 1); -inf - inf is -inf.
Divisor(mn, mx) == IF mn.inf \/ mx.inf THEN One ELSE Max(mx.val - mn.val, One)

\* Line 64: the (url, normalized score) pairs in the dict's order.
Normalized(d, mn, mx) ==
    [j \in 1..Len(d) |-> <<d[j].key, Frac(d[j].val - mn.val, Divisor(mn, mx))>>]

\* key=lambda x: x[1]
ScoreLess(pairs) ==
    {<<a, b>> \in (1..Len(pairs)) \X (1..Len(pairs)) : FracLess(pairs[a][2], pairs[b][2])}

ReverseSeq(s) == [j \in 1..Len(s) |-> s[Len(s) + 1 - j]]

\* RankReturn as sorted(...)[::-1] would give it: descending, with the
\* equal-scored pairs in the reverse of the dict's order.
RankReturnTiesReversed(d, mn, mx) ==
    SortedReverse(ReverseSeq(Normalized(d, mn, mx)),
                  ScoreLess(ReverseSeq(Normalized(d, mn, mx))))

\* Lines 62-67.
RankReturn(d, mn, mx) ==
    SortedReverse(Normalized(d, mn, mx), ScoreLess(Normalized(d, mn, mx)))

\* The state of the loop of lines 51-60 after the first m urls.
RECURSIVE RankLoopAfter(_, _)
RankLoopAfter(us, m) ==
    IF m = 0 THEN [dict |-> <<>>, mn |-> Unset, mx |-> Unset]
    ELSE LET s == RankLoopAfter(us, m - 1)
             d == Accumulate(s.dict, m - 1, us[m])
             t == DictGet(d, simplifyURL(us[m]), 0)
         IN  [dict |-> d, mn |-> NextMin(s.mn, t), mx |-> NextMax(s.mx, t)]

getRankedURLSLst(us) ==
    LET s == RankLoopAfter(us, Len(us))
    IN  RankReturn(s.dict, s.mn, s.mx)

----------------------------------------------------------------------------
(* arrangeWordsByImportance and getCompanyAcronyms *)

\* key=len
LenLess(ws) ==
    {<<a, b>> \in (1..Len(ws)) \X (1..Len(ws)) : Len(ws[a]) < Len(ws[b])}

\* SortedWords without reverse=True: ascending by length, stable.
SortedWordsAscending(name) ==
    ReverseSeq(SortedReverse(ReverseSeq(Split(Lower(name))),
                             LenLess(ReverseSeq(Split(Lower(name))))))

\* Line 33.
SortedWords(name) == SortedReverse(Split(Lower(name)), LenLess(Split(Lower(name))))

IsNonword(word) == word \notin TRIVIAL_WORDS /\ word \notin ENGLISH_DICT
IsOther(word) == word \notin TRIVIAL_WORDS /\ word \in ENGLISH_DICT

\* The pair (nonwords, others).
arrangeWordsByImportance(name) ==
    <<SelectSeq(SortedWords(name), IsNonword), SelectSeq(SortedWords(name), IsOther)>>

FirstChars(words) == Join([j \in 1..Len(words) |-> <<words[j][1]>>])

\* IsImportant without the .lower() of line 72.
IsImportantCaseSensitive(word) == word \notin TRIVIAL_WORDS

IsImportant(word) == Lower(word) \notin TRIVIAL_WORDS

getCompanyAcronyms(name) ==
    LET all_words == Lower(FirstChars(Split(name)))
        important == Lower(FirstChars(SelectSeq(Split(name), IsImportant)))
    IN  {all_words, important}

----------------------------------------------------------------------------
(* getBestURL *)

SubstringReason == "domain in companyName or vice versa"
AcronymReason == "domain in company acronyms"
NonwordReason == "nonword match"
SmallReason == "small domain match"
PartialReason == "partial domain match"

\* The value getBestURL returns when no domain matches: the empty str.
NoMatch == <<>>

\* Python truth of a returned value (a non-empty tuple, or the empty str).
Truthy(v) == Len(v) > 0

\* Line 77.
StripPunctuation(name) == Without(name, {".", ","})

\* Line 81.
SimplifiedName(name) == Lower(Without(name, {" "}))

\* Lines 84-85.
NormalizedDomain(domain) ==
    LET domain_parts == SplitOn(domain, ".")
    IN  IF Len(domain_parts) >= 3 THEN domain_parts[2] ELSE domain_parts[1]

\* Lines 96-98: the words of ws are removed one after the other, each from
\* what the removals before it left.
RECURSIVE ReducedDomain(_, _)
ReducedDomain(s, ws) ==
    IF ws = <<>> THEN s ELSE ReducedDomain(Replace(s, Head(ws)), Tail(ws))

\* The conditions of lines 87, 90, 93, 100 and 102.
SubstringRule(normalized_domain, sname) ==
    In(normalized_domain, sname) \/ In(sname, normalized_domain)

AcronymRule(normalized_domain, acronyms) == normalized_domain \in acronyms

NonwordRule(normalized_domain, nw) ==
    \E j \in 1..Len(nw) : In(nw[j], normalized_domain)

SmallRule(normalized_domain, ot) ==
    Len(normalized_domain) <= 4 /\ Len(ReducedDomain(normalized_domain, ot)) <= 1

\* PartialRule with < for the <= of line 102.
PartialRuleStrict(normalized_domain, ot) ==
    Len(ReducedDomain(normalized_domain, ot)) < 4

PartialRule(normalized_domain, ot) ==
    Len(ReducedDomain(normalized_domain, ot)) <= 4

\* MatchDomain with a guard on the score (if not rank: continue): a domain
\* of score 0 is passed over whatever rule it satisfies.
MatchDomainRankGated(domain, rank, sname, acronyms, nw, ot) ==
    LET normalized_domain == NormalizedDomain(domain)
    IN  IF rank.num = 0
        THEN <<>>
        ELSE IF SubstringRule(normalized_domain, sname)
        THEN <<domain, rank, SubstringReason>>
        ELSE IF AcronymRule(normalized_domain, acronyms)
        THEN <<domain, rank, AcronymReason>>
        ELSE IF NonwordRule(normalized_domain, nw)
        THEN <<domain, FracTimes(rank, 1, 2), NonwordReason>>
        ELSE IF SmallRule(normalized_domain, ot)
        THEN <<domain, FracTimes(rank, 2, 5), SmallReason>>
        ELSE IF PartialRule(normalized_domain, ot)
        THEN <<domain, FracTimes(rank, 2, 5), PartialReason>>
        ELSE <<>>

\* MatchDomain without the elif of lines 102-103.
MatchDomainNoPartial(domain, rank, sname, acronyms, nw, ot) ==
    LET normalized_domain == NormalizedDomain(domain)
    IN  IF SubstringRule(normalized_domain, sname)
        THEN <<domain, rank, SubstringReason>>
        ELSE IF AcronymRule(normalized_domain, acronyms)
        THEN <<domain, rank, AcronymReason>>
        ELSE IF NonwordRule(normalized_domain, nw)
        THEN <<domain, FracTimes(rank, 1, 2), NonwordReason>>
        ELSE IF SmallRule(normalized_domain, ot)
        THEN <<domain, FracTimes(rank, 2, 5), SmallReason>>
        ELSE <<>>

\* MatchDomain with the nonword match weighted 0.4 like the weaker rules.
MatchDomainNonwordWeak(domain, rank, sname, acronyms, nw, ot) ==
    LET normalized_domain == NormalizedDomain(domain)
    IN  IF SubstringRule(normalized_domain, sname)
        THEN <<domain, rank, SubstringReason>>
        ELSE IF AcronymRule(normalized_domain, acronyms)
        THEN <<domain, rank, AcronymReason>>
        ELSE IF NonwordRule(normalized_domain, nw)
        THEN <<domain, FracTimes(rank, 2, 5), NonwordReason>>
        ELSE IF SmallRule(normalized_domain, ot)
        THEN <<domain, FracTimes(rank, 2, 5), SmallReason>>
        ELSE IF PartialRule(normalized_domain, ot)
        THEN <<domain, FracTimes(rank, 2, 5), PartialReason>>
        ELSE <<>>

\* Lines 84-103, one iteration of the loop: the tuple the iteration returns,
\* or <<>> when it falls through to the next domain.
MatchDomain(domain, rank, sname, acronyms, nw, ot) ==
    LET normalized_domain == NormalizedDomain(domain)
    IN  IF SubstringRule(normalized_domain, sname)
        THEN <<domain, rank, SubstringReason>>
        ELSE IF AcronymRule(normalized_domain, acronyms)
        THEN <<domain, rank, AcronymReason>>
        ELSE IF NonwordRule(normalized_domain, nw)
        THEN <<domain, FracTimes(rank, 1, 2), NonwordReason>>
        ELSE IF SmallRule(normalized_domain, ot)
        THEN <<domain, FracTimes(rank, 2, 5), SmallReason>>
        ELSE IF PartialRule(normalized_domain, ot)
        THEN <<domain, FracTimes(rank, 2, 5), PartialReason>>
        ELSE <<>>

\* Lines 83-105 from the k0-th ranked domain on (1-based).
RECURSIVE MatchFrom(_, _, _, _, _, _)
MatchFrom(ranked, k0, sname, acronyms, nw, ot) ==
    IF k0 > Len(ranked) THEN NoMatch
    ELSE LET m == MatchDomain(ranked[k0][1], ranked[k0][2], sname, acronyms, nw, ot)
         IN  IF m # <<>> THEN m
             ELSE MatchFrom(ranked, k0 + 1, sname, acronyms, nw, ot)

getBestURL(name, us) ==
    LET stripped == StripPunctuation(name)
        tokens == arrangeWordsByImportance(stripped)
    IN  MatchFrom(getRankedURLSLst(us), 1, SimplifiedName(stripped),
                  getCompanyAcronyms(stripped), tokens[1], tokens[2])

----------------------------------------------------------------------------
(* Inputs. *)

FlynnCenterURL == <<"h","t","t","p",":","/","/","w","w","w",".","f","l","y","n","n","c","e","n","t","e","r",".","o","r","g","/">>
FlynnURL == <<"h","t","t","p","s",":","/","/","f","l","y","n","n",".","i","o","/">>
PensURL == <<"h","t","t","p",":","/","/","w","w","w",".","p","e","n","s",".","c","o","m","/","x">>
FpcURL == <<"h","t","t","p",":","/","/","f","p","c",".","o","r","g","/">>
NoSchemeURL == <<"p","e","n","s",".","c","o","m","/","x">>
PenShopURL == <<"h","t","t","p",":","/","/","a",".","p","e","n","s","h","o","p",".","p","e","n","s",".","c","o","m","/">>
PensHomeURL == <<"h","t","t","p",":","/","/","w","w","w",".","p","e","n","s",".","c","o","m","/">>
WikipediaURL == <<"h","t","t","p","s",":","/","/","e","n",".","w","i","k","i","p","e","d","i","a",".","o","r","g","/","w","i","k","i","/","F","l","y","n","n">>

URLPool == {FlynnCenterURL, FlynnURL, PensURL, FpcURL, NoSchemeURL, PenShopURL,
            PensHomeURL, WikipediaURL}

\* The sequences over S of length at most m.
RECURSIVE SeqsUpTo(_, _)
SeqsUpTo(S, m) ==
    IF m = 0 THEN {<<>>}
    ELSE LET shorter == SeqsUpTo(S, m - 1)
         IN  shorter \cup {Append(s, x) : s \in shorter, x \in S}

URLLists == SeqsUpTo(URLPool, MaxURLs)

FlynnPenCo == <<"F","l","y","n","n",","," ","P","e","n"," ","C","o",".">>
AcmeCorp == <<"A","c","m","e"," ","C","o","r","p">>
ThePen == <<"T","h","e"," ","P","e","n">>
Flynn == <<"F","l","y","n","n">>

Companies == {FlynnPenCo, AcmeCorp, ThePen, Flynn}

\* Names for the tokenizer: at most MaxWords of these words, joined by spaces.
NameWords == {<<"A","c","m","e">>, <<"C","o","r","p">>, <<"T","h","e">>, <<"p","e","n">>,
              <<"F","l","y","n","n">>, <<"V","e","e","v","a">>, <<"C","o",".">>, <<"a">>}

RECURSIVE JoinWords(_)
JoinWords(ws) ==
    IF ws = <<>> THEN <<>>
    ELSE IF Len(ws) = 1 THEN ws[1]
    ELSE ws[1] \o <<" ">> \o JoinWords(Tail(ws))

Names == {JoinWords(ws) : ws \in SeqsUpTo(NameWords, MaxWords)}

\* Mappings for getBestURLForName: at most MaxEntries items with distinct keys.
BatchURLLists == {<<>>, <<FlynnCenterURL>>, <<FlynnURL>>,
                  <<FlynnCenterURL, FpcURL>>, <<FpcURL, FlynnCenterURL>>}

BatchItems ==
    {[key |-> c, val |-> us] : c \in {FlynnPenCo, AcmeCorp, ThePen}, us \in BatchURLLists}

Mappings ==
    {d \in SeqsUpTo(BatchItems, MaxEntries) :
        \A a, b \in 1..Len(d) : a # b => d[a].key # d[b].key}

----------------------------------------------------------------------------
(* One call getBestURL(company, urls), statement by statement. *)

IdleBatch ==
    /\ query2URLS = <<>>
    /\ n = 0
    /\ results = <<>>
    /\ not_found = <<>>

IdleLocals ==
    /\ i = 0
    /\ rankedURLSDict = <<>>
    /\ min_rank = Unset
    /\ max_rank = Unset
    /\ ranked_urls = <<>>
    /\ nonwords = <<>>
    /\ others = <<>>
    /\ company_acronyms = {}
    /\ simplified_name = <<>>
    /\ k = 0
    /\ best_url = NoMatch

Init ==
    /\ company \in Companies
    /\ urls \in URLLists
    /\ pc = "start"
    /\ IdleLocals
    /\ IdleBatch

\* Line 77.
Strip ==
    /\ pc = "start"
    /\ company' = StripPunctuation(company)
    /\ pc' = "rank_loop"
    /\ UNCHANGED <<urls, i, rankedURLSDict, min_rank, max_rank, ranked_urls,
                   nonwords, others, company_acronyms, simplified_name, k, best_url>>
    /\ UNCHANGED batchVars

\* Lines 51-60, one iteration of getRankedURLSLst's loop.
RankLoop ==
    /\ pc = "rank_loop"
    /\ i < Len(urls)
    /\ rankedURLSDict' = Accumulate(rankedURLSDict, i, urls[i + 1])
    /\ min_rank' = NextMin(min_rank, DictGet(rankedURLSDict', simplifyURL(urls[i + 1]), 0))
    /\ max_rank' = NextMax(max_rank, DictGet(rankedURLSDict', simplifyURL(urls[i + 1]), 0))
    /\ i' = i + 1
    /\ UNCHANGED <<company, urls, pc, ranked_urls, nonwords, others,
                   company_acronyms, simplified_name, k, best_url>>
    /\ UNCHANGED batchVars

\* Lines 62-67 and the assignment of line 78.
RankDone ==
    /\ pc = "rank_loop"
    /\ i = Len(urls)
    /\ ranked_urls' = RankReturn(rankedURLSDict, min_rank, max_rank)
    /\ pc' = "arrange"
    /\ UNCHANGED <<company, urls, i, rankedURLSDict, min_rank, max_rank,
                   nonwords, others, company_acronyms, simplified_name, k, best_url>>
    /\ UNCHANGED batchVars

\* Line 79.
Arrange ==
    /\ pc = "arrange"
    /\ nonwords' = arrangeWordsByImportance(company)[1]
    /\ others' = arrangeWordsByImportance(company)[2]
    /\ pc' = "acronyms"
    /\ UNCHANGED <<company, urls, i, rankedURLSDict, min_rank, max_rank, ranked_urls,
                   company_acronyms, simplified_name, k, best_url>>
    /\ UNCHANGED batchVars

\* Line 80.
Acronyms ==
    /\ pc = "acronyms"
    /\ company_acronyms' = getCompanyAcronyms(company)
    /\ pc' = "simplify"
    /\ UNCHANGED <<company, urls, i, rankedURLSDict, min_rank, max_rank, ranked_urls,
                   nonwords, others, simplified_name, k, best_url>>
    /\ UNCHANGED batchVars

\* Line 81.
Simplify ==
    /\ pc = "simplify"
    /\ simplified_name' = SimplifiedName(company)
    /\ pc' = "match_loop"
    /\ UNCHANGED <<company, urls, i, rankedURLSDict, min_rank, max_rank, ranked_urls,
                   nonwords, others, company_acronyms, k, best_url>>
    /\ UNCHANGED batchVars

\* MatchLoop with the return of line 105 indented into the loop: the call
\* returns after the first ranked domain, matched or not.
MatchLoopReturnInside ==
    /\ pc = "match_loop"
    /\ k < Len(ranked_urls)
    /\ best_url' = MatchDomain(ranked_urls[k + 1][1], ranked_urls[k + 1][2],
                               simplified_name, company_acronyms, nonwords, others)
    /\ pc' = "done"
    /\ k' = k + 1
    /\ UNCHANGED <<company, urls, i, rankedURLSDict, min_rank, max_rank, ranked_urls,
                   nonwords, others, company_acronyms, simplified_name>>
    /\ UNCHANGED batchVars

\* Lines 83-103, one iteration: the k+1-th ranked domain is examined, and
\* the call returns when a rule accepts it.
MatchLoop ==
    /\ pc = "match_loop"
    /\ k < Len(ranked_urls)
    /\ LET m == MatchDomain(ranked_urls[k + 1][1], ranked_urls[k + 1][2],
                            simplified_name, company_acronyms, nonwords, others)
       IN  /\ best_url' = m
           /\ pc' = IF m # <<>> THEN "done" ELSE "match_loop"
    /\ k' = k + 1
    /\ UNCHANGED <<company, urls, i, rankedURLSDict, min_rank, max_rank, ranked_urls,
                   nonwords, others, company_acronyms, simplified_name>>
    /\ UNCHANGED batchVars

\* Line 105.
ReturnNoMatch ==
    /\ pc = "match_loop"
    /\ k = Len(ranked_urls)
    /\ best_url' = NoMatch
    /\ pc' = "done"
    /\ UNCHANGED <<company, urls, i, rankedURLSDict, min_rank, max_rank, ranked_urls,
                   nonwords, others, company_acronyms, simplified_name, k>>
    /\ UNCHANGED batchVars

Next ==
    \/ Strip
    \/ RankLoop
    \/ RankDone
    \/ Arrange
    \/ Acronyms
    \/ Simplify
    \/ MatchLoop
    \/ ReturnNoMatch

Spec == Init /\ [][Next]_vars

----------------------------------------------------------------------------
(* getBestURL called on the Microsoft example of run.py. *)

Microsoft == <<"M","i","c","r","o","s","o","f","t">>

MicrosoftURL == <<"h","t","t","p","s",":","/","/","w","w","w",".","m","i","c","r","o","s","o","f","t",".","c","o","m","/">>
MicrosoftSupportURL == <<"h","t","t","p","s",":","/","/","s","u","p","p","o","r","t",".","m","i","c","r","o","s","o","f","t",".","c","o","m","/">>
MicrosoftWikipediaURL == <<"h","t","t","p","s",":","/","/","e","n",".","w","i","k","i","p","e","d","i","a",".","o","r","g","/","w","i","k","i","/","M","i","c","r","o","s","o","f","t">>

\* The url list of the example.
MicrosoftURLs == <<MicrosoftURL, MicrosoftSupportURL, MicrosoftWikipediaURL>>

\* The call on any list of at most MaxURLs of the example's urls.
ScenarioInit ==
    /\ company = Microsoft
    /\ urls \in SeqsUpTo({MicrosoftURL, MicrosoftSupportURL, MicrosoftWikipediaURL}, MaxURLs)
    /\ pc = "start"
    /\ IdleLocals
    /\ IdleBatch

ScenarioSpec == ScenarioInit /\ [][Next]_vars

----------------------------------------------------------------------------
(* The tokenizer's two functions called on a name as given. *)

NameInit ==
    /\ company \in Names
    /\ urls = <<>>
    /\ pc = "tokenize"
    /\ IdleLocals
    /\ IdleBatch

CallArrange ==
    /\ pc = "tokenize"
    /\ nonwords' = arrangeWordsByImportance(company)[1]
    /\ others' = arrangeWordsByImportance(company)[2]
    /\ pc' = "tokenized"
    /\ UNCHANGED <<company, urls, i, rankedURLSDict, min_rank, max_rank, ranked_urls,
                   company_acronyms, simplified_name, k, best_url>>
    /\ UNCHANGED batchVars

CallAcronyms ==
    /\ pc = "tokenized"
    /\ company_acronyms' = getCompanyAcronyms(company)
    /\ pc' = "acronymed"
    /\ UNCHANGED <<company, urls, i, rankedURLSDict, min_rank, max_rank, ranked_urls,
                   nonwords, others, simplified_name, k, best_url>>
    /\ UNCHANGED batchVars

NameNext ==
    \/ CallArrange
    \/ CallAcronyms

NameSpec == NameInit /\ [][NameNext]_vars

----------------------------------------------------------------------------
(* getBestURLForName *)

\* Bucket with the test of line 119 on the confidence (if best_url and
\* best_url[1]): a match of confidence 0 counts as not found.
BucketByConfidence(res, nf, name, best) ==
    IF Truthy(best) /\ best[2].num # 0
    THEN [results |-> DictSet(res, name, best), not_found |-> nf]
    ELSE [results |-> res, not_found |-> Append(nf, name)]

\* Lines 119-122: the two outputs after best_url is bucketed for a company.
Bucket(res, nf, name, best) ==
    IF Truthy(best)
    THEN [results |-> DictSet(res, name, best), not_found |-> nf]
    ELSE [results |-> res, not_found |-> Append(nf, name)]

BatchInit ==
    /\ query2URLS \in Mappings
    /\ n = 0
    /\ results = <<>>
    /\ not_found = <<>>
    /\ pc = "batch_loop"
    /\ company = <<>>
    /\ urls = <<>>
    /\ IdleLocals

\* Lines 117-122, one iteration.
BatchLoop ==
    /\ pc = "batch_loop"
    /\ n < Len(query2URLS)
    /\ LET item == query2URLS[n + 1]
           b == Bucket(results, not_found, item.key, getBestURL(item.key, item.val))
       IN  /\ results' = b.results
           /\ not_found' = b.not_found
    /\ n' = n + 1
    /\ UNCHANGED <<pc, query2URLS>>
    /\ UNCHANGED callVars

\* Line 123.
BatchReturn ==
    /\ pc = "batch_loop"
    /\ n = Len(query2URLS)
    /\ pc' = "batch_done"
    /\ UNCHANGED batchVars
    /\ UNCHANGED callVars

BatchNext ==
    \/ BatchLoop
    \/ BatchReturn

BatchSpec == BatchInit /\ [][BatchNext]_vars

----------------------------------------------------------------------------
(* Properties of getBestURL (specification Spec). *)

\* ranked_urls holds the value getRankedURLSLst returned.
RankedReturned == pc \in {"arrange", "acronyms", "simplify", "match_loop", "done"}

\* The SimplifiedDomains of the call's urls.
Domains == {simplifyURL(urls[j]) : j \in 1..Len(urls)}

\* Some rule of the cascade accepts the domain, for the name of this call.
SatisfiesSomeRule(domain) ==
    LET label == NormalizedDomain(domain)
    IN  \/ SubstringRule(label, simplified_name)
        \/ AcronymRule(label, company_acronyms)
        \/ NonwordRule(label, nonwords)
        \/ SmallRule(label, others)
        \/ PartialRule(label, others)

\* The position of a domain in ranked_urls.
RankedPosition(domain) ==
    CHOOSE p \in 1..Len(ranked_urls) : ranked_urls[p][1] = domain

\* C1: when getBestURL returns a match (d, c, r), the domains were walked in
\* the order getRankedURLSLst(urls) produced, d is one of them, and no domain
\* ranked strictly before d satisfies any rule of the cascade.
C1_FirstSatisfyingDomainWins ==
    (pc = "done" /\ best_url # NoMatch) =>
        /\ ranked_urls = getRankedURLSLst(urls)
        /\ \E p \in 1..Len(ranked_urls) :
              /\ ranked_urls[p][1] = best_url[1]
              /\ \A q \in 1..(p - 1) : ~SatisfiesSomeRule(ranked_urls[q][1])

\* A call that returned a weak match on a domain that was not ranked first,
\* while a domain ranked after it satisfies the substring rule.
C1_Witness ==
    /\ pc = "done"
    /\ best_url # NoMatch
    /\ best_url[3] \in {SmallReason, PartialReason}
    /\ RankedPosition(best_url[1]) > 1
    /\ \E q \in (RankedPosition(best_url[1]) + 1)..Len(ranked_urls) :
          SubstringRule(NormalizedDomain(ranked_urls[q][1]), simplified_name)

\* The label the claim C2 names: the second dot-separated part of a domain
\* of three or more parts, the first part otherwise.
ClaimedLabel(domain) ==
    LET parts == SplitOn(domain, ".")
    IN  IF Len(parts) >= 3 THEN parts[2] ELSE parts[1]

\* The reason of the earliest rule, in the claimed order, that the label
\* satisfies for the (punctuation-stripped) name of the call.
EarliestReason(label) ==
    LET tokens == arrangeWordsByImportance(company)
    IN  IF SubstringRule(label, SimplifiedName(company)) THEN SubstringReason
        ELSE IF AcronymRule(label, getCompanyAcronyms(company)) THEN AcronymReason
        ELSE IF NonwordRule(label, tokens[1]) THEN NonwordReason
        ELSE IF SmallRule(label, tokens[2]) THEN SmallReason
        ELSE IF PartialRule(label, tokens[2]) THEN PartialReason
        ELSE "none"

\* The confidence the claim C2 names for a reason and a ranked score.
ClaimedConfidence(reason, score) ==
    IF reason \in {SubstringReason, AcronymReason} THEN score
    ELSE IF reason = NonwordReason THEN FracTimes(score, 1, 2)
    ELSE FracTimes(score, 2, 5)

\* C2: the reason returned for the matched domain is that of the earliest
\* rule, in the order substring, acronym, nonword, small, partial, that its
\* normalized label satisfies, and the confidence is the domain's ranked
\* score times 1, 1, 0.5, 0.4, 0.4 respectively.  (The name of the rules is
\* the name after line 77 removed "." and ",".)
C2_ReasonAndConfidence ==
    (pc = "done" /\ best_url # NoMatch) =>
        /\ best_url[3] = EarliestReason(ClaimedLabel(best_url[1]))
        /\ FracEq(best_url[2],
                  ClaimedConfidence(best_url[3], ranked_urls[RankedPosition(best_url[1])][2]))

\* A nonword match with a positive confidence.
C2_Witness ==
    /\ pc = "done"
    /\ best_url # NoMatch
    /\ best_url[3] = NonwordReason
    /\ best_url[2].num > 0

\* C3: getBestURL returns the empty string exactly when no ranked domain
\* satisfies any rule; an empty url list gives the empty string; and any
\* other returned value is one (domain, confidence, reason) triple for a
\* ranked domain.
C3_NoMatchIffNoRule ==
    pc = "done" =>
        /\ ranked_urls = getRankedURLSLst(urls)
        /\ (best_url = NoMatch) <=>
              (\A p \in 1..Len(ranked_urls) : ~SatisfiesSomeRule(ranked_urls[p][1]))
        /\ (urls = <<>> => best_url = NoMatch)
        /\ (best_url # NoMatch =>
              /\ Len(best_url) = 3
              /\ \E p \in 1..Len(ranked_urls) : ranked_urls[p][1] = best_url[1]
              /\ best_url[3] \in {SubstringReason, AcronymReason, NonwordReason,
                                  SmallReason, PartialReason})

\* A call on several domains that returned the empty string.
C3_Witness ==
    /\ pc = "done"
    /\ best_url = NoMatch
    /\ Len(ranked_urls) >= 2

----------------------------------------------------------------------------
(* Properties of getRankedURLSLst (specification Spec). *)

\* C4: getRankedURLSLst returns exactly one (domain, score) pair for each
\* distinct SimplifiedDomain of its input (none for the empty list), and
\* every score is in [0, 1].
C4_OnePairPerDomainScoresInUnit ==
    RankedReturned =>
        /\ Len(ranked_urls) = Cardinality(Domains)
        /\ {ranked_urls[p][1] : p \in 1..Len(ranked_urls)} = Domains
        /\ \A p \in 1..Len(ranked_urls) :
              /\ ranked_urls[p][2].den > 0
              /\ 0 <= ranked_urls[p][2].num
              /\ ranked_urls[p][2].num <= ranked_urls[p][2].den

\* Three urls of two domains, one of them with a score strictly inside (0, 1).
C4_Witness ==
    /\ pc = "arrange"
    /\ Len(urls) = 3
    /\ Len(ranked_urls) = 2
    /\ \E p \in 1..Len(ranked_urls) :
          /\ 0 < ranked_urls[p][2].num
          /\ ranked_urls[p][2].num < ranked_urls[p][2].den

\* C5: when the urls reduce to more than one distinct domain, the highest
\* returned score is 1 and the lowest is 0.
C5_HighestIsOneLowestIsZero ==
    (RankedReturned /\ Cardinality(Domains) > 1) =>
        /\ \E p \in 1..Len(ranked_urls) :
              /\ ranked_urls[p][2].num = ranked_urls[p][2].den
              /\ \A q \in 1..Len(ranked_urls) : FracLeq(ranked_urls[q][2], ranked_urls[p][2])
        /\ \E p \in 1..Len(ranked_urls) :
              /\ ranked_urls[p][2].num = 0
              /\ \A q \in 1..Len(ranked_urls) : FracLeq(ranked_urls[p][2], ranked_urls[q][2])

\* The 1-based position in urls of the first url of a domain.
FirstPosition(domain) ==
    CHOOSE j \in 1..Len(urls) :
        /\ simplifyURL(urls[j]) = domain
        /\ \A h \in 1..(j - 1) : simplifyURL(urls[h]) # domain

\* C6: the returned list is in non-increasing order of score, and domains
\* with equal scores are in the order of their first urls in the input.
C6_SortedDescendingStable ==
    RankedReturned =>
        \A p, q \in 1..Len(ranked_urls) :
            p < q =>
                /\ ~FracLess(ranked_urls[p][2], ranked_urls[q][2])
                /\ FracEq(ranked_urls[p][2], ranked_urls[q][2]) =>
                      FirstPosition(ranked_urls[p][1]) < FirstPosition(ranked_urls[q][1])

\* Three domains, two of them with equal scores and one with another score.
C6_Witness ==
    /\ pc = "arrange"
    /\ Len(ranked_urls) = 3
    /\ \E p, q \in 1..Len(ranked_urls) :
          p # q /\ FracEq(ranked_urls[p][2], ranked_urls[q][2])
    /\ \E p, q \in 1..Len(ranked_urls) :
          FracLess(ranked_urls[p][2], ranked_urls[q][2])

\* C7: a further url of an already-seen domain leaves that domain's
\* accumulated raw total at least as high as it was before that url.
C7_RecurrenceKeepsTotal ==
    (pc = "rank_loop" /\ i >= 1) =>
        LET before == RankLoopAfter(urls, i - 1).dict
            domain == simplifyURL(urls[i])
        IN  DictHas(before, domain) =>
                DictGet(rankedURLSDict, domain, 0) >= DictGet(before, domain, 0)

----------------------------------------------------------------------------
(* Properties of the tokenizer (specification NameSpec). *)

\* The number of occurrences of x in the sequence s.
Count(s, x) == Cardinality({j \in 1..Len(s) : s[j] = x})

\* The lowercased whitespace-split words of the name, in the name's order.
LoweredWords == [j \in 1..Len(Split(company)) |-> Lower(Split(company)[j])]

\* list is in length-descending order, and its words of each length are the
\* words of that length of expected, in the same order.
LengthDescendingStable(list, expected) ==
    /\ \A a, b \in 1..Len(list) : a < b => Len(list[a]) >= Len(list[b])
    /\ \A l \in {Len(expected[j]) : j \in 1..Len(expected)} \cup
                {Len(list[j]) : j \in 1..Len(list)} :
          LET HasLength(w) == Len(w) = l
          IN  SelectSeq(list, HasLength) = SelectSeq(expected, HasLength)

\* C8: arrangeWordsByImportance(name) returns (nonwords, others) without any
\* stoplist word; together they hold, with multiplicity, exactly the
\* lowercased words of the name that are not stoplist words; nonwords are
\* those absent from the dictionary and others those in it; and each list is
\* in length-descending order with equal-length words in the name's order.
C8_TokenizerPartition ==
    pc \in {"tokenized", "acronymed"} =>
        LET NotInDict(w) == w \notin TRIVIAL_WORDS /\ w \notin ENGLISH_DICT
            InDict(w) == w \notin TRIVIAL_WORDS /\ w \in ENGLISH_DICT
            all == {LoweredWords[j] : j \in 1..Len(LoweredWords)}
                     \cup {nonwords[j] : j \in 1..Len(nonwords)}
                     \cup {others[j] : j \in 1..Len(others)}
        IN  /\ \A j \in 1..Len(nonwords) :
                  nonwords[j] \notin TRIVIAL_WORDS /\ nonwords[j] \notin ENGLISH_DICT
            /\ \A j \in 1..Len(others) :
                  others[j] \notin TRIVIAL_WORDS /\ others[j] \in ENGLISH_DICT
            /\ \A w \in all :
                  Count(nonwords, w) + Count(others, w) =
                      IF w \in TRIVIAL_WORDS THEN 0 ELSE Count(LoweredWords, w)
            /\ LengthDescendingStable(nonwords, SelectSeq(LoweredWords, NotInDict))
            /\ LengthDescendingStable(others, SelectSeq(LoweredWords, InDict))

\* A name of a stoplist word and two different nonwords of the same length.
C8_Witness ==
    /\ pc = "tokenized"
    /\ Len(Split(company)) = 3
    /\ Len(nonwords) = 2
    /\ nonwords[1] # nonwords[2]
    /\ Len(nonwords[1]) = Len(nonwords[2])
    /\ \E j \in 1..Len(LoweredWords) : LoweredWords[j] \in TRIVIAL_WORDS

\* a is the lowercased concatenation of the first characters of ws.
IsAcronymOf(a, ws) ==
    /\ Len(a) = Len(ws)
    /\ \A j \in 1..Len(ws) : a[j] = LowerChar(ws[j][1])

\* C9: getCompanyAcronyms(name) is the set of the lowercased first-character
\* acronym of all the whitespace-split words and that of the words that are
\* not (case-insensitively) stoplist words; for "Acme Corp" it is {"ac", "a"}.
C9_AcronymSet ==
    pc = "acronymed" =>
        LET NotStopword(w) == Lower(w) \notin TRIVIAL_WORDS
            words == Split(company)
            kept == SelectSeq(words, NotStopword)
        IN  /\ \E a \in company_acronyms : IsAcronymOf(a, words)
            /\ \E a \in company_acronyms : IsAcronymOf(a, kept)
            /\ \A a \in company_acronyms : IsAcronymOf(a, words) \/ IsAcronymOf(a, kept)
            /\ company = AcmeCorp => company_acronyms = {<<"a", "c">>, <<"a">>}

\* The acronyms of "Acme Corp" were computed.
C9_Witness ==
    /\ pc = "acronymed"
    /\ company = AcmeCorp
    /\ Cardinality(company_acronyms) = 2

----------------------------------------------------------------------------
(* Properties of getBestURLForName (specification BatchSpec). *)

\* C10: getBestURLForName puts every name of the mapping in exactly one of
\* its outputs: in results, bound to the triple getBestURL(name, urls)
\* returns for that pair alone, when that is a match, and once in not_found
\* when it is the empty string; the outputs hold no other name.
C10_EachNameInOneBucket ==
    pc = "batch_done" =>
        /\ \A j \in 1..Len(query2URLS) :
              LET name == query2URLS[j].key
                  alone == getBestURL(name, query2URLS[j].val)
              IN  IF alone # NoMatch
                  THEN /\ DictHas(results, name)
                       /\ DictGet(results, name, NoMatch) = alone
                       /\ Count(not_found, name) = 0
                  ELSE /\ ~DictHas(results, name)
                       /\ Count(not_found, name) = 1
        /\ \A j \in 1..Len(results) : DictHas(query2URLS, results[j].key)
        /\ \A j \in 1..Len(not_found) : DictHas(query2URLS, not_found[j])
        /\ \A a, b \in 1..Len(results) : a # b => results[a].key # results[b].key

\* A mapping of which one name was matched, with confidence 0, and another
\* was not found.
C10_Witness ==
    /\ pc = "batch_done"
    /\ Len(not_found) >= 1
    /\ \E j \in 1..Len(results) : results[j].val[2].num = 0

----------------------------------------------------------------------------
(* The Microsoft example (specification ScenarioSpec). *)

\* C11: for the name "Microsoft" and the urls https://www.microsoft.com/,
\* https://support.microsoft.com/, https://en.wikipedia.org/wiki/Microsoft,
\* getBestURL returns a match whose domain is microsoft.com or
\* support.microsoft.com and whose reason is the substring rule's.
C11_MicrosoftScenario ==
    (pc = "done" /\ company = Microsoft /\ urls = MicrosoftURLs) =>
        /\ best_url # NoMatch
        /\ best_url[1] \in {<<"m","i","c","r","o","s","o","f","t",".","c","o","m">>,
                            <<"s","u","p","p","o","r","t",".","m","i","c","r","o","s","o","f","t",".","c","o","m">>}
        /\ best_url[3] = SubstringReason

----------------------------------------------------------------------------
(* The call and the call on the reversed url list (specification Spec). *)

\* The reason of what an iteration of the loop returns, "none" when it
\* falls through.
ReasonOf(m) == IF m = <<>> THEN "none" ELSE m[3]

\* The ranking of the reversed url list, and what getBestURL returns for it.
ReversedRanking == getRankedURLSLst(ReverseSeq(urls))
ReversedBest == getBestURL(company, ReverseSeq(urls))

\* C12: for a fixed name, the rule a domain first satisfies is the same
\* whether the urls are ranked as given or reversed, whatever the domain's
\* score in each ranking (in particular for the substring and the acronym
\* rule); so when getBestURL returns the same domain for both orders it
\* returns the same reason.
C12_ReasonIndependentOfOrder ==
    pc = "done" =>
        /\ \A p \in 1..Len(ranked_urls), q \in 1..Len(ReversedRanking) :
              ranked_urls[p][1] = ReversedRanking[q][1] =>
                  ReasonOf(MatchDomain(ranked_urls[p][1], ranked_urls[p][2],
                                       simplified_name, company_acronyms, nonwords, others))
                    = ReasonOf(MatchDomain(ReversedRanking[q][1], ReversedRanking[q][2],
                                           simplified_name, company_acronyms, nonwords, others))
        /\ (best_url # NoMatch /\ ReversedBest # NoMatch /\ best_url[1] = ReversedBest[1]) =>
              best_url[3] = ReversedBest[3]

\* A url list that differs from its reversal, for which both orders return
\* the same domain by the substring or the acronym rule, with different
\* confidences.
C12_Witness ==
    /\ pc = "done"
    /\ urls # ReverseSeq(urls)
    /\ best_url # NoMatch
    /\ ReversedBest # NoMatch
    /\ best_url[1] = ReversedBest[1]
    /\ best_url[3] \in {SubstringReason, AcronymReason}
    /\ ~FracEq(best_url[2], ReversedBest[2])

----------------------------------------------------------------------------
(* Short labels always match (specification Spec). *)

\* C13: every ranked domain whose normalized label has at most 4 characters
\* (the empty label of a url without network location included) satisfies
\* some rule, so the empty string is returned only when every ranked
\* domain's label is longer than 4 characters; and a returned match has the
\* SimplifiedDomain of some input url and a confidence in [0, 1].
C13_ShortLabelsAlwaysMatch ==
    pc = "done" =>
        /\ \A p \in 1..Len(ranked_urls) :
              Len(NormalizedDomain(ranked_urls[p][1])) <= 4 =>
                  SatisfiesSomeRule(ranked_urls[p][1])
        /\ best_url = NoMatch =>
              \A p \in 1..Len(ranked_urls) : Len(NormalizedDomain(ranked_urls[p][1])) > 4
        /\ best_url # NoMatch =>
              /\ \E j \in 1..Len(urls) : simplifyURL(urls[j]) = best_url[1]
              /\ best_url[2].den > 0
              /\ 0 <= best_url[2].num
              /\ best_url[2].num <= best_url[2].den

\* A call whose ranking holds the empty domain of a url without network
\* location, and that returned a partial match with a positive confidence on
\* a label of exactly 4 characters that no word of the name shortens.
C13_Witness ==
    /\ pc = "done"
    /\ \E p \in 1..Len(ranked_urls) : ranked_urls[p][1] = <<>>
    /\ best_url # NoMatch
    /\ best_url[3] = PartialReason
    /\ Len(NormalizedDomain(best_url[1])) = 4
    /\ Len(ReducedDomain(NormalizedDomain(best_url[1]), others)) = 4
    /\ best_url[2].num > 0

====
